---- MODULE Spec2Model ----
(***************************************************************************)
(* Model of main.py: the token cache of get_mcp_access_token, the response *)
(* classification of execute_mcp_tool, the poll-and-satisfy loop of        *)
(* drive_until_complete, the tool discovery of discover_mcp_tools and      *)
(* extract_tools_from_response, and get_or_create_agent; and of the setup  *)
(* check script test_mcp_setup.py.                                         *)
(*                                                                         *)
(* Python values are encoded as follows.  None is the string "None".  A    *)
(* dict is a record; every JSON value and every value execute_mcp_tool     *)
(* returns carries a field py naming its Python type, so that values of    *)
(* different types stay comparable.  Time is an integer number of seconds  *)
(* read from one wall clock, now.                                          *)
(***************************************************************************)
EXTENDS Integers, Sequences, FiniteSets, TLC

VARIABLES
    pc,                 \* position of the single caller in main / drive_until_complete
    now,                \* the wall clock, time.time()
    mcp_token_cache,    \* _mcp_token_cache
    issued,             \* the latest result credential.get_token returned, or NoResult
    run,                \* local `run` of drive_until_complete: the last fetched run
    start_time,         \* local start_time
    auth_headers,       \* local auth_headers of the approval branch
    approvals,          \* local approvals
    outputs,            \* local outputs
    idx,                \* position of the for loop over tool_calls (1-based)
    log,                \* what the loop did since the previous status fetch
    fetch_failed,       \* the status fetch made after the sleep raised
    cancels,            \* cancel requests issued
    cancel_failed,      \* the cancel request raised
    last_call,          \* inputs of the latest execute_mcp_tool call
    last_result,        \* value the latest execute_mcp_tool call returned
    last_token          \* what the latest get_mcp_access_token call did

\* the external requests of the loop
VARIABLES
    calling,            \* the call at the caller's position was made and has
                        \* not returned
    outstanding,        \* the requests made and not answered yet
    failed_call,        \* the latest call of the service that raised
    tool_requests       \* the HTTP requests of the latest execute_mcp_tool call

call_vars == <<calling, outstanding, failed_call, tool_requests>>

\* the functions main() calls before the loop, each called on its own
VARIABLES
    response_data,      \* argument `data` of extract_tools_from_response
    extracted           \* value extract_tools_from_response returned

extract_vars == <<response_data, extracted>>

VARIABLES
    access_token,       \* local access_token of discover_mcp_tools
    endpoint_idx,       \* position of the for loop over endpoints_to_try
    requests_sent,      \* the HTTP requests discover_mcp_tools has made
    discover_response,  \* what the latest of these requests did
    available_tools     \* value discover_mcp_tools returned

discover_vars == <<access_token, endpoint_idx, requests_sent,
                   discover_response, available_tools>>

VARIABLES
    AGENT_ID,           \* the module's AGENT_ID, os.environ.get("AGENT_ID")
    force_create,       \* argument force_create of get_or_create_agent
    model,              \* argument model
    agent_calls,        \* the calls made on project_client.agents
    agent               \* value get_or_create_agent returned

agent_vars == <<AGENT_ID, force_create, model, agent_calls, agent>>

\* the setup check script, test_mcp_setup.py
VARIABLES
    required_vars,      \* which of the required variables have a value
    checks_run,         \* the checks main() has run
    setup_requests,     \* the requests the script has made
    setup_token,        \* local token of main()
    setup_response,     \* what the request to the server did
    connectivity_ok,    \* local connectivity_ok of main()
    success,            \* value main() returned
    exit_code           \* argument of sys.exit

setup_vars == <<required_vars, checks_run, setup_requests, setup_token,
                setup_response, connectivity_ok, success, exit_code>>

startup_vars == <<extract_vars, discover_vars, agent_vars, setup_vars>>

vars == <<pc, now, mcp_token_cache, issued, run, start_time, auth_headers,
          approvals, outputs, idx, log, fetch_failed, cancels, cancel_failed,
          last_call, last_result, last_token, call_vars, startup_vars>>

\* the variables of the loop and of the two MCP functions, but the position
loop_vars_but_pc == <<now, mcp_token_cache, issued, run, start_time,
                      auth_headers, approvals, outputs, idx, log, fetch_failed,
                      cancels, cancel_failed, last_call, last_result,
                      last_token, call_vars>>

\* the variables of the loop and of the two MCP functions
loop_vars == <<pc, now, mcp_token_cache, issued, run, start_time, auth_headers,
               approvals, outputs, idx, log, fetch_failed, cancels,
               cancel_failed, last_call, last_result, last_token, call_vars>>

----------------------------------------------------------------------------
(* Bounds of the model *)

\* longest tool_calls list of a required action
MaxCalls == 2
\* seconds one status fetch takes
fetch_seconds == 1
\* timeout_seconds the loop is driven with (the default is 120)
timeout_seconds == 3

(* Program constants *)

\* poll_interval, the default of drive_until_complete
poll_interval == 1
\* the validity margin of a cached token
REFRESH_MARGIN == 300

\* the clock never needs to pass this value before the loop has timed out
MaxTime == timeout_seconds + poll_interval + fetch_seconds

NoneVal == "None"

----------------------------------------------------------------------------
(* get_mcp_access_token *)

\* what the credential can issue: a token and its seconds of validity, one
\* just above the margin and one of an hour
Issuable ==
    {[token |-> "tokA", life |-> REFRESH_MARGIN + 1],
     [token |-> "tokB", life |-> 3600]}

InitialCache == [token |-> NoneVal, expires_at |-> 0]
NoResult == [token |-> NoneVal, expires_on |-> 0]

\* what credential.get_token can do: raise, or return a token and its expiry
CredOutcomes ==
    {[ok |-> FALSE, token |-> NoneVal, life |-> 0]}
    \cup {[ok |-> TRUE, token |-> i.token, life |-> i.life] : i \in Issuable}

\* the test without the validity margin
CacheValid_NoMargin(cache, current_time) ==
    cache.token # NoneVal /\ cache.expires_at > current_time

\* main.py:71, the test that serves the cached token
CacheValid(cache, current_time) ==
    cache.token # NoneVal /\ cache.expires_at > current_time + REFRESH_MARGIN

\* a cache that takes the new token and keeps the expiry it had
StoreToken_KeepsExpiry(cache, token_result) ==
    [token |-> token_result.token, expires_at |-> cache.expires_at]

\* main.py:92-93, the cache after a successful credential result
StoreToken(cache, token_result) ==
    [token |-> token_result.token, expires_at |-> token_result.expires_on]

\* get_mcp_access_token called at current_time with the credential behaving as
\* cred: whether it raised, the token returned, the cache afterwards, whether
\* the credential was asked, and the credential's result
get_mcp_access_token(cache, current_time, cred) ==
    IF CacheValid(cache, current_time)
    THEN [raised |-> FALSE, token |-> cache.token, cache |-> cache,
          requested |-> FALSE, result |-> NoResult]
    ELSE IF cred.ok
         THEN LET token_result == [token |-> cred.token,
                                   expires_on |-> current_time + cred.life]
              IN [raised |-> FALSE, token |-> token_result.token,
                  cache |-> StoreToken(cache, token_result),
                  requested |-> TRUE, result |-> token_result]
         ELSE [raised |-> TRUE, token |-> NoneVal, cache |-> cache,
               requested |-> TRUE, result |-> NoResult]

\* the record kept of a get_mcp_access_token call; flip changes at every call
TokenCall(prev, tk) ==
    [called |-> TRUE, flip |-> ~prev.flip, requested |-> tk.requested,
     raised |-> tk.raised, token |-> tk.token]

NoTokenCall ==
    [called |-> FALSE, flip |-> FALSE, requested |-> FALSE, raised |-> FALSE,
     token |-> NoneVal]

\* the latest result of the credential after a get_mcp_access_token call
Issued(prev, tk) == IF tk.requested /\ ~tk.raised THEN tk.result ELSE prev

----------------------------------------------------------------------------
(* execute_mcp_tool *)

(* JSON values are records with a field py naming the Python type the     *)
(* parser gives them; a dict carries its keys as further fields, so that  *)
(* `"k" in d` is "k" \in DOMAIN d.                                         *)

Str(s) == [py |-> "str", value |-> s]
Num(n) == [py |-> "int", value |-> n]
List(items) == [py |-> "list", items |-> items]

\* the value of a "text" key: a string as the protocol has it, or a number
TextValues == {Str("rows"), Num(42)}

\* items a "content" list can start with
ContentItems ==
    {Str("plain"), [py |-> "dict", type |-> "image"]}
    \cup {[py |-> "dict", type |-> "text", text |-> t] : t \in TextValues}

\* values of the "result" key
ResultValues ==
    {Str("done"), [py |-> "dict", rows |-> 3],
     [py |-> "dict", content |-> Str("plain")],
     [py |-> "dict", content |-> List(<<>>)]}
    \cup {[py |-> "dict", content |-> List(<<c>>)] : c \in ContentItems}

\* values of the "error" key: a JSON-RPC error object with or without its
\* members, or a value that is no object
ErrorValues ==
    {[py |-> "dict", code |-> 7, message |-> "boom"], [py |-> "dict"],
     Str("bad")}

\* what response.json() gives: it raises ("invalid"), or parses a dict with
\* any of the keys "error" and "result", a list, or a scalar
JsonBodies ==
    {[py |-> "invalid"], [py |-> "int", value |-> 0], List(<<>>),
     [py |-> "dict"]}
    \cup {[py |-> "dict", error |-> e] : e \in ErrorValues}
    \cup {[py |-> "dict", result |-> r] : r \in ResultValues}
    \cup {[py |-> "dict", error |-> e, result |-> r] :
             e \in ErrorValues, r \in {Str("done"),
                 [py |-> "dict", content |-> List(<<[py |-> "dict",
                     type |-> "text", text |-> Str("rows")]>>)]}}

StatusCodes == {200, 401, 403, 404, 500}

\* what requests.post can do: raise, or return a response
HttpOutcomes ==
    {[exc |-> TRUE, status_code |-> 0, data |-> [py |-> "invalid"]]}
    \cup [exc : {FALSE}, status_code : StatusCodes \ {200},
          data : {[py |-> "invalid"], [py |-> "dict", result |-> Str("done")]}]
    \cup [exc : {FALSE}, status_code : {200}, data : JsonBodies]

\* a raised exception, as the value of the expression that raised it
Raise(type) == [py |-> "exception", type |-> type]
IsException(v) == v.py = "exception"

\* the dict {"error": ...} with the message the code formats
ErrorDict(msg) == [py |-> "dict", error |-> msg]

AuthenticationFailed == ErrorDict([fmt |-> "Authentication failed"])
AuthorizationFailed == ErrorDict([fmt |-> "Authorization failed"])
HttpError(status_code) == ErrorDict([fmt |-> "HTTP", status |-> status_code])
InvalidJson == ErrorDict([fmt |-> "Invalid JSON response"])
ExecutionFailed == ErrorDict([fmt |-> "Execution failed"])
UnexpectedFormat(data) ==
    [py |-> "dict", error |-> [fmt |-> "Unexpected response format"],
     response |-> data]

\* main.py:451-456; .get on a value that is no dict raises
McpError(error_info) ==
    IF error_info.py # "dict"
    THEN Raise("AttributeError")
    ELSE ErrorDict([fmt |-> "MCP Error",
                    code |-> IF "code" \in DOMAIN error_info
                             THEN error_info.code ELSE -1,
                    message |-> IF "message" \in DOMAIN error_info
                                THEN error_info.message
                                ELSE "Unknown error"])

\* main.py:469-471; the text is sliced for the log line before it is
\* returned, and result_text[:200] raises on a value that cannot be sliced
ReturnText(result_text) ==
    IF result_text.py \in {"str", "list"}
    THEN result_text
    ELSE Raise("TypeError")

\* main.py:459-475
ExtractResult(result) ==
    IF /\ result.py = "dict"
       /\ "content" \in DOMAIN result
       /\ result.content.py = "list"
       /\ Len(result.content.items) > 0
       /\ result.content.items[1].py = "dict"
       /\ "text" \in DOMAIN result.content.items[1]
    THEN ReturnText(result.content.items[1].text)
    ELSE result

\* main.py:447-479, the body of the inner try; response.json() raises on a
\* body that is no JSON, and `"error" in data` raises on a scalar
ParseBody(data) ==
    IF data.py = "invalid" THEN Raise("JSONDecodeError")
    ELSE IF data.py \notin {"dict", "list"} THEN Raise("TypeError")
    ELSE IF data.py = "dict" /\ "error" \in DOMAIN data
         THEN McpError(data.error)
    ELSE IF data.py = "dict" /\ "result" \in DOMAIN data
         THEN ExtractResult(data.result)
    ELSE UnexpectedFormat(data)

\* main.py:446 and 481-484, the inner try with its except json.JSONDecodeError
InnerTry(v) ==
    IF IsException(v) /\ v.type = "JSONDecodeError" THEN InvalidJson ELSE v

\* main.py:431-484
HandleResponse(response) ==
    IF response.status_code = 401 THEN AuthenticationFailed
    ELSE IF response.status_code = 403 THEN AuthorizationFailed
    ELSE IF response.status_code # 200 THEN HttpError(response.status_code)
    ELSE InnerTry(ParseBody(response.data))

\* an outer try that catches the errors of the HTTP request only
OuterTry_RequestErrorsOnly(v) ==
    IF IsException(v) /\ v.type = "RequestException"
    THEN ExecutionFailed
    ELSE v

\* main.py:376 and 486-490, the outer try with its except Exception
OuterTry(v) == IF IsException(v) THEN ExecutionFailed ELSE v

\* execute_mcp_tool, given what its get_mcp_access_token call did (tk) and
\* what requests.post does (http): the value it returns, or the exception
\* it lets through
execute_mcp_tool(tk, http) ==
    OuterTry(IF tk.raised THEN Raise("RuntimeError")
             ELSE IF http.exc THEN Raise("RequestException")
             ELSE HandleResponse(http))

\* the record kept of an execute_mcp_tool call: what its token call and its
\* HTTP request did
ToolCall(tk, http) == [called |-> TRUE, token_raised |-> tk.raised, http |-> http]

\* the outcomes of requests.post the loop is driven with: an exception, a
\* rejection, and a result with a text
LoopHttpOutcomes ==
    {h \in HttpOutcomes :
        \/ h.exc
        \/ h.status_code = 401 /\ h.data.py = "invalid"
        \/ /\ h.status_code = 200
           /\ h.data = [py |-> "dict", result |-> [py |-> "dict",
                 content |-> List(<<[py |-> "dict", type |-> "text",
                                     text |-> Str("rows")]>>)]]}

NoValue == [py |-> "NoneType"]

\* a request sent again after a 401 or 403 answer
RequestsOf_RetryOnReject(tk, http) ==
    IF tk.raised THEN <<>>
    ELSE IF ~http.exc /\ http.status_code \in {401, 403}
    THEN <<[token |-> tk.token], [token |-> tk.token]>>
    ELSE <<[token |-> tk.token]>>

\* main.py:386 and 407-426: the HTTP requests of one execute_mcp_tool call,
\* each with the token of its Authorization header: none without a token,
\* else the one requests.post, whatever its answer is
RequestsOf(tk, http) == IF tk.raised THEN <<>> ELSE <<[token |-> tk.token]>>

\* the record kept of these requests; flip changes at every call
ToolRequests(prev, tk, http) ==
    [flip |-> ~prev.flip, requests |-> RequestsOf(tk, http)]

NoToolRequests == [flip |-> FALSE, requests |-> <<>>]

NoCall ==
    [called |-> FALSE, token_raised |-> FALSE,
     http |-> [exc |-> TRUE, status_code |-> 0, data |-> [py |-> "invalid"]]]

----------------------------------------------------------------------------
(* The run as the service reports it *)

NonTerminalStatuses == {"queued", "in_progress", "requires_action"}
TerminalStatuses == {"completed", "failed", "cancelled"}

CallIds == 1..MaxCalls
\* a required tool call: a RequiredMcpToolCall or a call of another type
ToolCalls == [id : CallIds, type : {"mcp", "function"}]

\* the lists `tool_calls or []` can be: at most MaxCalls calls of either
\* type, ids distinct and listed from the highest down
CallLists ==
    {cs \in UNION {[1..n -> ToolCalls] : n \in 0..MaxCalls} :
        \A i \in DOMAIN cs : cs[i].id = MaxCalls + 1 - i}

\* run.required_action: None or an action of an unknown type ("other"), a
\* SubmitToolApprovalAction or a SubmitToolOutputsAction
NoAction == [kind |-> "other", tool_calls |-> <<>>]
RequiredActions ==
    {NoAction} \cup [kind : {"approval", "outputs"}, tool_calls : CallLists]

Runs ==
    [status : (NonTerminalStatuses \ {"requires_action"}) \cup TerminalStatuses,
     required_action : {NoAction}]
    \cup [status : {"requires_action"}, required_action : RequiredActions]

\* the calls of a list that are RequiredMcpToolCall
IsMcp(call) == call.type = "mcp"
McpCalls(tool_calls) == SelectSeq(tool_calls, IsMcp)

----------------------------------------------------------------------------
(* drive_until_complete *)

\* the while condition without "requires_action"
LoopCondition_NoRequiresAction(status) == status \in {"queued", "in_progress"}

\* main.py:524, the while condition
LoopCondition(status) == status \in {"queued", "in_progress", "requires_action"}

\* the timeout test with the elapsed seconds compared to milliseconds
TimedOut_Millis(elapsed) == elapsed > timeout_seconds * 1000

\* main.py:540, the timeout test
TimedOut(elapsed) == elapsed > timeout_seconds

\* an iteration that sleeps and polls whatever the non-terminal status is
Dispatch_AlwaysPoll(r, elapsed) ==
    IF r.status \notin {"queued", "in_progress", "requires_action"} THEN "done"
    ELSE IF elapsed > timeout_seconds THEN "cancel"
    ELSE "sleep"

\* main.py:524-594, where one iteration goes, given the run and the elapsed time
Dispatch(r, elapsed) ==
    IF ~LoopCondition(r.status) THEN "done"
    ELSE IF TimedOut(elapsed) THEN "cancel"
    ELSE IF r.status # "requires_action" THEN "sleep"
    ELSE IF r.required_action.kind = "approval" THEN "approve"
    ELSE IF r.required_action.kind = "outputs" THEN "exec"
    ELSE "refetch"

\* main.py:577-583
ToolApproval(call, headers) ==
    [tool_call_id |-> call.id, approve |-> TRUE, headers |-> headers]

\* approvals that stop after the first MCP call
BuildApprovals_FirstOnly(tool_calls, headers) ==
    LET mcp == McpCalls(tool_calls)
    IN [i \in 1..(IF Len(mcp) > 0 THEN 1 ELSE 0) |->
           ToolApproval(mcp[i], headers)]

\* main.py:574-583, the approvals built from the listed calls
BuildApprovals(tool_calls, headers) ==
    LET mcp == McpCalls(tool_calls)
    IN [i \in 1..Len(mcp) |-> ToolApproval(mcp[i], headers)]

\* outputs that leave out the calls whose execution failed
AppendOutput_SkipErrors(outs, call, result) ==
    IF result.py = "dict" /\ "error" \in DOMAIN result
    THEN outs
    ELSE Append(outs, [tool_call_id |-> call.id, output |-> result])

\* main.py:608, the outputs after a call was executed: every result is
\* appended, an error value like any other
AppendOutput(outs, call, result) ==
    Append(outs, [tool_call_id |-> call.id, output |-> result])

\* a submission of whatever was collected, an empty list included
ShouldSubmit_Always(items) == TRUE

\* main.py:584 and 610, whether anything is submitted
ShouldSubmit(items) == Len(items) > 0

\* a request to a service: its kind and, for a tool call, the id of the call
ExternalRequest(kind, id) == [kind |-> kind, id |-> id]
NoRequest == ExternalRequest("none", 0)

\* the blocking call the statement at a position of the loop makes:
\* runs.cancel (main.py:543), runs.get (551 and 620), get_mcp_access_token
\* (567), runs.submit_tool_outputs (586 and 612), and execute_mcp_tool (600)
\* with its token request and its HTTP request, for an MCP call only
RequestAt(at, r, i) ==
    CASE at = "cancel" -> ExternalRequest("cancel", 0)
      [] at \in {"fetch", "refetch"} -> ExternalRequest("get", 0)
      [] at = "approve" -> ExternalRequest("token", 0)
      [] at \in {"submit_approvals", "submit_outputs"} ->
            ExternalRequest("submit", 0)
      [] at = "exec" /\ i <= Len(r.required_action.tool_calls) ->
            IF IsMcp(r.required_action.tool_calls[i])
            THEN ExternalRequest("tool", r.required_action.tool_calls[i].id)
            ELSE NoRequest
      [] OTHER -> NoRequest

\* a call that returns before its request is answered
Await_Detached(requests, request) == requests

\* every call of the loop is synchronous: when it returns, its request has
\* been answered
Await(requests, request) == requests \ {request}

\* the call at the caller's position is made
SendRequest ==
    /\ UNCHANGED startup_vars
    /\ ~calling
    /\ RequestAt(pc, run, idx) # NoRequest
    /\ calling' = TRUE
    /\ outstanding' = outstanding \cup {RequestAt(pc, run, idx)}
    /\ UNCHANGED <<failed_call, tool_requests>>
    /\ UNCHANGED <<pc, now, mcp_token_cache, issued, run, start_time,
                   auth_headers, approvals, outputs, idx, log, fetch_failed,
                   cancels, cancel_failed, last_call, last_result, last_token>>

\* main.py:761 and 522-523: the run is created and the loop is entered
StartRun ==
    /\ UNCHANGED startup_vars
    /\ UNCHANGED call_vars
    /\ pc = "main"
    /\ \E r \in Runs : run' = r
    /\ start_time' = now
    /\ pc' = "loop"
    /\ UNCHANGED <<now, mcp_token_cache, issued, auth_headers, approvals,
                   outputs, idx, log, fetch_failed, cancels, cancel_failed,
                   last_call, last_result, last_token>>

\* main.py:524-562 and 594-596: the while test, the timeout test and the branch
LoopTop ==
    /\ UNCHANGED startup_vars
    /\ UNCHANGED call_vars
    /\ pc = "loop"
    /\ pc' = Dispatch(run, now - start_time)
    /\ outputs' = IF pc' = "exec" THEN <<>> ELSE outputs
    /\ idx' = IF pc' = "exec" THEN 1 ELSE idx
    /\ UNCHANGED <<now, mcp_token_cache, issued, run, start_time, auth_headers,
                   approvals, log, fetch_failed, cancels, cancel_failed,
                   last_call, last_result, last_token>>

\* a cancel request whose failure propagates
CancelRun_Raises ==
    /\ UNCHANGED startup_vars
    /\ calling /\ calling' = FALSE
    /\ outstanding' = Await(outstanding, RequestAt(pc, run, idx))
    /\ UNCHANGED <<failed_call, tool_requests>>
    /\ pc = "cancel"
    /\ cancels' = cancels + 1
    /\ \E ok \in BOOLEAN :
          /\ cancel_failed' = ~ok
          /\ pc' = IF ok THEN "done" ELSE "raised"
    /\ UNCHANGED <<now, mcp_token_cache, issued, run, start_time, auth_headers,
                   approvals, outputs, idx, log, fetch_failed, last_call,
                   last_result, last_token>>

\* main.py:541-547: one cancel request, whose failure is swallowed, then break
CancelRun ==
    /\ UNCHANGED startup_vars
    /\ calling /\ calling' = FALSE
    /\ outstanding' = Await(outstanding, RequestAt(pc, run, idx))
    /\ UNCHANGED <<failed_call, tool_requests>>
    /\ pc = "cancel"
    /\ \E ok \in BOOLEAN : cancel_failed' = ~ok
    /\ cancels' = cancels + 1
    /\ pc' = "done"
    /\ UNCHANGED <<now, mcp_token_cache, issued, run, start_time, auth_headers,
                   approvals, outputs, idx, log, fetch_failed, last_call,
                   last_result, last_token>>

\* main.py:550
Sleep ==
    /\ UNCHANGED startup_vars
    /\ UNCHANGED call_vars
    /\ pc = "sleep"
    /\ now + poll_interval <= MaxTime
    /\ now' = now + poll_interval
    /\ log' = Append(log, [ev |-> "sleep", seconds |-> poll_interval])
    /\ pc' = "fetch"
    /\ UNCHANGED <<mcp_token_cache, issued, run, start_time, auth_headers,
                   approvals, outputs, idx, fetch_failed, cancels,
                   cancel_failed, last_call, last_result, last_token>>

\* main.py:551-556: the fetch after the sleep; an exception ends the loop
FetchAfterSleep ==
    /\ UNCHANGED startup_vars
    /\ calling /\ calling' = FALSE
    /\ outstanding' = Await(outstanding, RequestAt(pc, run, idx))
    /\ pc = "fetch"
    /\ UNCHANGED tool_requests
    /\ now + fetch_seconds <= MaxTime
    /\ now' = now + fetch_seconds
    /\ \/ /\ \E r \in Runs : run' = r
          /\ log' = <<>>
          /\ pc' = "loop"
          /\ UNCHANGED <<fetch_failed, failed_call>>
       \/ /\ fetch_failed' = TRUE
          /\ failed_call' = "fetch_after_sleep"
          /\ pc' = "done"
          /\ UNCHANGED <<run, log>>
    /\ UNCHANGED <<mcp_token_cache, issued, start_time, auth_headers,
                   approvals, outputs, idx, cancels, cancel_failed, last_call,
                   last_result, last_token>>

\* main.py:562-584: the token for the headers, then one approval per MCP call
HandleApproval ==
    /\ UNCHANGED startup_vars
    /\ calling /\ calling' = FALSE
    /\ outstanding' = Await(outstanding, RequestAt(pc, run, idx))
    /\ UNCHANGED <<failed_call, tool_requests>>
    /\ pc = "approve"
    /\ \E cred \in CredOutcomes :
          LET tk == get_mcp_access_token(mcp_token_cache, now, cred)
              headers == IF tk.raised THEN NoneVal ELSE tk.token
          IN /\ mcp_token_cache' = tk.cache
             /\ issued' = Issued(issued, tk)
             /\ last_token' = TokenCall(last_token, tk)
             /\ auth_headers' = headers
             /\ approvals' =
                   BuildApprovals(run.required_action.tool_calls, headers)
    /\ pc' = IF ShouldSubmit(approvals') THEN "submit_approvals" ELSE "refetch"
    /\ UNCHANGED <<now, run, start_time, outputs, idx, log, fetch_failed,
                   cancels, cancel_failed, last_call, last_result>>

\* main.py:586-590: the submission of the approvals; an exception propagates
SubmitApprovals ==
    /\ UNCHANGED startup_vars
    /\ calling /\ calling' = FALSE
    /\ outstanding' = Await(outstanding, RequestAt(pc, run, idx))
    /\ pc = "submit_approvals"
    /\ log' = Append(log, [ev |-> "submit", tool_approvals |-> approvals])
    /\ \E ok \in BOOLEAN :
          /\ pc' = IF ok THEN "refetch" ELSE "raised"
          /\ failed_call' = IF ok THEN failed_call ELSE "submit"
    /\ UNCHANGED tool_requests
    /\ UNCHANGED <<now, mcp_token_cache, issued, run, start_time, auth_headers,
                   approvals, outputs, idx, fetch_failed, cancels,
                   cancel_failed, last_call, last_result, last_token>>

\* main.py:597-608: one pass of the for loop over the listed calls; an MCP
\* call is executed and its result appended, another call is skipped
ExecuteCall ==
    /\ UNCHANGED startup_vars
    /\ pc = "exec"
    /\ idx <= Len(run.required_action.tool_calls)
    /\ IF IsMcp(run.required_action.tool_calls[idx])
       THEN /\ calling /\ calling' = FALSE
            /\ outstanding' = Await(outstanding, RequestAt(pc, run, idx))
            /\ UNCHANGED failed_call
       ELSE UNCHANGED call_vars
    /\ LET call == run.required_action.tool_calls[idx]
       IN IF IsMcp(call)
          THEN \E cred \in CredOutcomes, http \in LoopHttpOutcomes :
                  LET tk == get_mcp_access_token(mcp_token_cache, now, cred)
                      result == execute_mcp_tool(tk, http)
                  IN /\ mcp_token_cache' = tk.cache
                     /\ issued' = Issued(issued, tk)
                     /\ last_token' = TokenCall(last_token, tk)
                     /\ last_call' = ToolCall(tk, http)
                     /\ tool_requests' = ToolRequests(tool_requests, tk, http)
                     /\ last_result' = result
                     /\ outputs' = AppendOutput(outputs, call, result)
                     /\ log' = Append(log,
                           [ev |-> "execute", id |-> call.id, output |-> result])
          ELSE UNCHANGED <<mcp_token_cache, issued, last_token, last_call,
                           last_result, outputs, log>>
    /\ idx' = idx + 1
    /\ UNCHANGED <<pc, now, run, start_time, auth_headers, approvals,
                   fetch_failed, cancels, cancel_failed>>

\* main.py:610: the for loop is over
ExecuteDone ==
    /\ UNCHANGED startup_vars
    /\ UNCHANGED call_vars
    /\ pc = "exec"
    /\ idx > Len(run.required_action.tool_calls)
    /\ pc' = IF ShouldSubmit(outputs) THEN "submit_outputs" ELSE "refetch"
    /\ UNCHANGED <<now, mcp_token_cache, issued, run, start_time, auth_headers,
                   approvals, outputs, idx, log, fetch_failed, cancels,
                   cancel_failed, last_call, last_result, last_token>>

\* a submission whose failure is swallowed
SubmitOutputs_Swallows ==
    /\ UNCHANGED startup_vars
    /\ calling /\ calling' = FALSE
    /\ outstanding' = Await(outstanding, RequestAt(pc, run, idx))
    /\ pc = "submit_outputs"
    /\ log' = Append(log, [ev |-> "submit", tool_outputs |-> outputs])
    /\ \E ok \in BOOLEAN :
          /\ pc' = "refetch"
          /\ failed_call' = IF ok THEN failed_call ELSE "submit"
    /\ UNCHANGED tool_requests
    /\ UNCHANGED <<now, mcp_token_cache, issued, run, start_time, auth_headers,
                   approvals, outputs, idx, fetch_failed, cancels,
                   cancel_failed, last_call, last_result, last_token>>

\* main.py:612-616: the submission of the outputs; an exception propagates
SubmitOutputs ==
    /\ UNCHANGED startup_vars
    /\ calling /\ calling' = FALSE
    /\ outstanding' = Await(outstanding, RequestAt(pc, run, idx))
    /\ pc = "submit_outputs"
    /\ log' = Append(log, [ev |-> "submit", tool_outputs |-> outputs])
    /\ \E ok \in BOOLEAN :
          /\ pc' = IF ok THEN "refetch" ELSE "raised"
          /\ failed_call' = IF ok THEN failed_call ELSE "submit"
    /\ UNCHANGED tool_requests
    /\ UNCHANGED <<now, mcp_token_cache, issued, run, start_time, auth_headers,
                   approvals, outputs, idx, fetch_failed, cancels,
                   cancel_failed, last_call, last_result, last_token>>

\* main.py:620: the fetch after the action was handled; an exception
\* propagates.  The locals of the iteration (and the records of its calls)
\* are dead once the next run is fetched: each is assigned again before it is
\* read, so they are cleared here.
FetchAfterAction ==
    /\ UNCHANGED startup_vars
    /\ calling /\ calling' = FALSE
    /\ outstanding' = Await(outstanding, RequestAt(pc, run, idx))
    /\ pc = "refetch"
    /\ now + fetch_seconds <= MaxTime
    /\ now' = now + fetch_seconds
    /\ \/ /\ \E r \in Runs : run' = r
          /\ log' = <<>>
          /\ pc' = "loop"
          /\ auth_headers' = NoneVal
          /\ approvals' = <<>>
          /\ outputs' = <<>>
          /\ idx' = 1
          /\ last_call' = NoCall
          /\ last_result' = NoValue
          /\ tool_requests' = NoToolRequests
          /\ UNCHANGED failed_call
       \/ /\ pc' = "raised"
          /\ failed_call' = "fetch_after_action"
          /\ UNCHANGED tool_requests
          /\ UNCHANGED <<run, log, auth_headers, approvals, outputs, idx,
                         last_call, last_result>>
    /\ UNCHANGED <<mcp_token_cache, issued, start_time, fetch_failed, cancels,
                   cancel_failed, last_token>>

\* no response yet
NoResponse == [exc |-> TRUE, status_code |-> 0, data |-> [py |-> "invalid"]]

\* extract_tools_from_response is not being called
ExtractIdle ==
    /\ response_data = NoValue
    /\ extracted = NoValue

\* discover_mcp_tools is not being called
DiscoverIdle ==
    /\ access_token = NoneVal
    /\ endpoint_idx = 1
    /\ requests_sent = <<>>
    /\ discover_response = NoResponse
    /\ available_tools = NoValue

\* get_or_create_agent is not being called
AgentIdle ==
    /\ AGENT_ID = NoneVal
    /\ force_create = FALSE
    /\ model = NoneVal
    /\ agent_calls = <<>>
    /\ agent = NoValue

\* the setup check script is not running
SetupIdle ==
    /\ required_vars = [v \in {} |-> TRUE]
    /\ checks_run = <<>>
    /\ setup_requests = <<>>
    /\ setup_token = NoneVal
    /\ setup_response = NoResponse
    /\ connectivity_ok = NoneVal
    /\ success = NoneVal
    /\ exit_code = -1

\* the functions of the startup are not being called
StartupIdle ==
    /\ ExtractIdle
    /\ DiscoverIdle
    /\ AgentIdle
    /\ SetupIdle

Init ==
    /\ StartupIdle
    /\ calling = FALSE
    /\ outstanding = {}
    /\ failed_call = NoneVal
    /\ tool_requests = NoToolRequests
    /\ pc = "main"
    /\ now = 0
    /\ mcp_token_cache = InitialCache
    /\ issued = NoResult
    /\ run = [status |-> "queued", required_action |-> NoAction]
    /\ start_time = 0
    /\ auth_headers = NoneVal
    /\ approvals = <<>>
    /\ outputs = <<>>
    /\ idx = 1
    /\ log = <<>>
    /\ fetch_failed = FALSE
    /\ cancels = 0
    /\ cancel_failed = FALSE
    /\ last_call = NoCall
    /\ last_result = NoValue
    /\ last_token = NoTokenCall

Next ==
    \/ StartRun
    \/ LoopTop
    \/ SendRequest
    \/ CancelRun
    \/ Sleep
    \/ FetchAfterSleep
    \/ HandleApproval
    \/ SubmitApprovals
    \/ ExecuteCall
    \/ ExecuteDone
    \/ SubmitOutputs
    \/ FetchAfterAction

Spec == Init /\ [][Next]_vars

\* The caller is a single sequential thread that keeps running: whenever a
\* step of the program is possible, one is taken.
FairSpec == Spec /\ WF_vars(Next)

----------------------------------------------------------------------------
(* The two MCP functions called on their own, by any caller, at any time *)

\* a call of get_mcp_access_token
GetTokenCall ==
    /\ UNCHANGED startup_vars
    /\ UNCHANGED call_vars
    /\ pc = "mcp"
    /\ \E cred \in CredOutcomes :
          LET tk == get_mcp_access_token(mcp_token_cache, now, cred)
          IN /\ mcp_token_cache' = tk.cache
             /\ issued' = Issued(issued, tk)
             /\ last_token' = TokenCall(last_token, tk)
    /\ UNCHANGED <<pc, now, run, start_time, auth_headers, approvals, outputs,
                   idx, log, fetch_failed, cancels, cancel_failed, last_call,
                   last_result>>

\* a call of execute_mcp_tool
ExecuteToolCall ==
    /\ UNCHANGED startup_vars
    /\ UNCHANGED <<calling, outstanding, failed_call>>
    /\ pc = "mcp"
    /\ \E cred \in CredOutcomes, http \in HttpOutcomes :
          LET tk == get_mcp_access_token(mcp_token_cache, now, cred)
          IN /\ mcp_token_cache' = tk.cache
             /\ issued' = Issued(issued, tk)
             /\ last_token' = TokenCall(last_token, tk)
             /\ last_call' = ToolCall(tk, http)
             /\ tool_requests' = ToolRequests(tool_requests, tk, http)
             /\ last_result' = execute_mcp_tool(tk, http)
    /\ UNCHANGED <<pc, now, run, start_time, auth_headers, approvals, outputs,
                   idx, log, fetch_failed, cancels, cancel_failed>>

\* a second passes
ClockTick ==
    /\ UNCHANGED startup_vars
    /\ UNCHANGED call_vars
    /\ pc = "mcp"
    /\ now < MaxTime
    /\ now' = now + 1
    /\ UNCHANGED <<pc, mcp_token_cache, issued, run, start_time, auth_headers,
                   approvals, outputs, idx, log, fetch_failed, cancels,
                   cancel_failed, last_call, last_result, last_token>>

InitMcp ==
    /\ StartupIdle
    /\ calling = FALSE
    /\ outstanding = {}
    /\ failed_call = NoneVal
    /\ tool_requests = NoToolRequests
    /\ pc = "mcp"
    /\ now = 0
    /\ mcp_token_cache = InitialCache
    /\ issued = NoResult
    /\ run = [status |-> "queued", required_action |-> NoAction]
    /\ start_time = 0
    /\ auth_headers = NoneVal
    /\ approvals = <<>>
    /\ outputs = <<>>
    /\ idx = 1
    /\ log = <<>>
    /\ fetch_failed = FALSE
    /\ cancels = 0
    /\ cancel_failed = FALSE
    /\ last_call = NoCall
    /\ last_result = NoValue
    /\ last_token = NoTokenCall

NextMcp == GetTokenCall \/ ExecuteToolCall \/ ClockTick

SpecMcp == InitMcp /\ [][NextMcp]_vars

----------------------------------------------------------------------------
(* The startup functions are called while the loop is not running *)

LoopIdle ==
    /\ calling = FALSE
    /\ outstanding = {}
    /\ failed_call = NoneVal
    /\ tool_requests = NoToolRequests
    /\ now = 0
    /\ mcp_token_cache = InitialCache
    /\ issued = NoResult
    /\ run = [status |-> "queued", required_action |-> NoAction]
    /\ start_time = 0
    /\ auth_headers = NoneVal
    /\ approvals = <<>>
    /\ outputs = <<>>
    /\ idx = 1
    /\ log = <<>>
    /\ fetch_failed = FALSE
    /\ cancels = 0
    /\ cancel_failed = FALSE
    /\ last_call = NoCall
    /\ last_result = NoValue
    /\ last_token = NoTokenCall

----------------------------------------------------------------------------
(* extract_tools_from_response *)

\* most entries of a tool list
MaxEntries == 2

\* the tool names of the model; no name is part of another name
ToolNames == {"tools", "capabilities", "query_sql"}

\* an entry of a tool list: a name, a record with a name, or something else
ToolEntries ==
    {Str(n) : n \in ToolNames}
    \cup {[py |-> "dict", name |-> Str(n)] : n \in ToolNames}
    \cup {Num(7), [py |-> "dict", description |-> Str("query_sql")]}

ToolLists == UNION {[1..n -> ToolEntries] : n \in 0..MaxEntries}

\* the documented shapes of a response around one tool list
Shapes(entries) ==
    {[py |-> "dict", tools |-> List(entries)],
     [py |-> "dict", capabilities |-> [py |-> "dict", tools |-> List(entries)]],
     List(entries)}

\* what the function is called with: a documented shape, one under "result",
\* or a value of no documented shape
ExtractInputs ==
    UNION {Shapes(l) \cup {[py |-> "dict", result |-> d] : d \in Shapes(l)} :
              l \in ToolLists}
    \cup {Num(0), NoValue, Str("tools"), Str("query_sql"), [py |-> "dict"],
          [py |-> "dict", tools |-> Str("query_sql")],
          [py |-> "dict", capabilities |-> List(<<Str("query_sql")>>)],
          [py |-> "dict", capabilities |-> [py |-> "dict"]],
          [py |-> "dict", tools |-> Str("query_sql"),
           result |-> List(<<Str("query_sql")>>)],
          [py |-> "dict", result |-> [py |-> "dict",
               result |-> List(<<Str("query_sql")>>)]]}

\* `key in d` raises a TypeError on a number and on None
CanContain(d) == d.py \in {"dict", "list", "str"}

\* `key in d`: a key of a dict, an element of a list, a part of a string
Contains(d, key) ==
    CASE d.py = "dict" -> key \in DOMAIN d
      [] d.py = "list" -> \E i \in DOMAIN d.items : d.items[i] = Str(key)
      [] d.py = "str" -> d.value = key
      [] OTHER -> FALSE

\* `key in d and isinstance(d[key], <type>)`: d[key] is the value of that key
\* of a dict and a TypeError on a list or a string, which take integer indices
ContainsA(d, key, type) ==
    IF ~Contains(d, key) THEN "False"
    ELSE IF d.py # "dict" THEN "TypeError"
    ELSE IF d[key].py = type THEN "True" ELSE "False"

\* main.py:249-253, 261-265 and 269-273: the names of the entries that are a
\* dict with a "name" or a string, in the order of the list
AppendNames(entries) ==
    LET kept == SelectSeq(entries,
                    LAMBDA tool : \/ tool.py = "dict" /\ "name" \in DOMAIN tool
                                  \/ tool.py = "str")
    IN [i \in DOMAIN kept |->
           IF kept[i].py = "dict" THEN kept[i].name ELSE kept[i]]

RECURSIVE extract_tools_from_response(_)
\* main.py:247-276, the body of the try: the list returned or left in
\* `tools`, or the exception raised
ExtractTry(d) ==
    IF ~CanContain(d) THEN Raise("TypeError")
    ELSE LET format1 == ContainsA(d, "tools", "list")
             format2 == ContainsA(d, "capabilities", "dict")
         IN CASE format1 = "TypeError" -> Raise("TypeError")
              [] format1 = "True" -> List(AppendNames(d.tools.items))
              [] format1 = "False" /\ format2 = "TypeError" -> Raise("TypeError")
              [] format1 = "False" /\ format2 = "True" ->
                    IF /\ "tools" \in DOMAIN d.capabilities
                       /\ d.capabilities.tools.py = "list"
                    THEN List(AppendNames(d.capabilities.tools.items))
                    ELSE List(<<>>)
              [] OTHER ->
                    IF d.py = "list" THEN List(AppendNames(d.items))
                    ELSE IF ~Contains(d, "result") THEN List(<<>>)
                    ELSE IF d.py # "dict" THEN Raise("TypeError")
                    ELSE extract_tools_from_response(d.result)

\* main.py:244-281: an exception leaves the empty `tools` to be returned
extract_tools_from_response(d) ==
    LET v == ExtractTry(d)
    IN IF IsException(v) THEN List(<<>>) ELSE v

\* a call of extract_tools_from_response
ExtractCall ==
    /\ pc = "extract"
    /\ extracted' = extract_tools_from_response(response_data)
    /\ pc' = "extracted"
    /\ UNCHANGED <<now, mcp_token_cache, issued, run, start_time, auth_headers,
                   approvals, outputs, idx, log, fetch_failed, cancels,
                   cancel_failed, last_call, last_result, last_token>>
    /\ UNCHANGED <<call_vars, response_data, discover_vars, agent_vars,
                   setup_vars>>

InitExtract ==
    /\ LoopIdle
    /\ DiscoverIdle
    /\ AgentIdle
    /\ SetupIdle
    /\ pc = "extract"
    /\ response_data \in ExtractInputs
    /\ extracted = NoValue

NextExtract == ExtractCall

SpecExtract == InitExtract /\ [][NextExtract]_vars

----------------------------------------------------------------------------
(* discover_mcp_tools *)

\* main.py:124-133
fallback_tools ==
    List(<<Str("query_sql"), Str("execute_sql"), Str("list_tables"),
           Str("describe_table"), Str("create_table"), Str("drop_table"),
           Str("create_index"), Str("update_data")>>)

\* the paths in another order
endpoints_to_try_CapabilitiesFirst ==
    <<"/capabilities", "/tools", "/list_tools", "/introspect">>

\* main.py:188-193
endpoints_to_try == <<"/tools", "/list_tools", "/capabilities", "/introspect">>

\* the tool lists the server of the model answers with
DiscoverLists ==
    {<<>>, <<Str("query_sql")>>, <<Num(7)>>,
     <<[py |-> "dict", name |-> Str("tools")]>>,
     <<Str("tools"), Str("query_sql")>>}

\* the bodies of its answers: a tool list in a documented shape, bare or
\* under "result", a body that lists nothing, or a body that is no JSON
DiscoverBodies ==
    UNION {Shapes(l) \cup {[py |-> "dict", result |-> d] : d \in Shapes(l)} :
              l \in DiscoverLists}
    \cup {[py |-> "invalid"], Num(0), [py |-> "dict"],
          List(<<Str("result")>>),
          [py |-> "dict", error |-> Str("query_sql")]}

\* what requests.post and requests.get can do: raise, or return a response
DiscoverOutcomes ==
    {NoResponse}
    \cup [exc : {FALSE}, status_code : {404, 500}, data : {[py |-> "invalid"]}]
    \cup [exc : {FALSE}, status_code : {200}, data : DiscoverBodies]

\* main.py:174-181, after requests.post returned or raised: the tools
\* extracted (none unless the status is 200 and the body has a "result"), or
\* the exception raised
JsonRpcTry(response) ==
    IF response.exc THEN Raise("RequestException")
    ELSE IF response.status_code # 200 THEN List(<<>>)
    ELSE IF response.data.py = "invalid" THEN Raise("JSONDecodeError")
    ELSE IF ~CanContain(response.data) THEN Raise("TypeError")
    ELSE IF ~Contains(response.data, "result") THEN List(<<>>)
    ELSE IF response.data.py # "dict" THEN Raise("TypeError")
    ELSE extract_tools_from_response(response.data.result)

\* main.py:208-213, after requests.get returned or raised
RestTry(response) ==
    IF response.exc THEN Raise("RequestException")
    ELSE IF response.status_code # 200 THEN List(<<>>)
    ELSE IF response.data.py = "invalid" THEN Raise("JSONDecodeError")
    ELSE extract_tools_from_response(response.data)

\* a method that returns whatever list it extracted
Found_AnyList(v) == ~IsException(v)

\* main.py:178 and 211, `if tools:`, reached unless the method raised
\* (main.py:184 and 215): the method returns its list
Found(v) == ~IsException(v) /\ Len(v.items) > 0

\* the record kept of a request
Request(method, path, token) ==
    [method |-> method, path |-> path, token |-> token]

\* main.py:139-144
DiscoverGetToken ==
    /\ pc = "discover"
    /\ \E cred \in CredOutcomes :
          LET tk == get_mcp_access_token(mcp_token_cache, now, cred)
          IN /\ mcp_token_cache' = tk.cache
             /\ issued' = Issued(issued, tk)
             /\ last_token' = TokenCall(last_token, tk)
             /\ access_token' = tk.token
             /\ IF tk.raised
                THEN pc' = "discovered" /\ available_tools' = fallback_tools
                ELSE pc' = "jsonrpc" /\ UNCHANGED available_tools
    /\ UNCHANGED <<now, run, start_time, auth_headers, approvals, outputs, idx,
                   log, fetch_failed, cancels, cancel_failed, last_call,
                   last_result>>
    /\ UNCHANGED <<extract_vars, endpoint_idx, requests_sent, discover_response>>
    /\ UNCHANGED <<call_vars, agent_vars, setup_vars>>

\* main.py:147-185, method 1
JsonRpcList ==
    /\ pc = "jsonrpc"
    /\ requests_sent' =
          Append(requests_sent, Request("POST", "/message", access_token))
    /\ \E response \in DiscoverOutcomes :
          /\ discover_response' = response
          /\ IF Found(JsonRpcTry(response))
             THEN pc' = "discovered" /\ available_tools' = JsonRpcTry(response)
             ELSE pc' = "rest" /\ UNCHANGED available_tools
    /\ UNCHANGED loop_vars_but_pc
    /\ UNCHANGED <<extract_vars, access_token, endpoint_idx, agent_vars,
                   setup_vars>>

\* main.py:195-225, one turn of the loop of method 2, and the fallback after
\* its last turn
RestGet ==
    /\ pc = "rest"
    /\ requests_sent' =
          Append(requests_sent,
                 Request("GET", endpoints_to_try[endpoint_idx], access_token))
    /\ \E response \in DiscoverOutcomes :
          /\ discover_response' = response
          /\ IF Found(RestTry(response))
             THEN /\ pc' = "discovered"
                  /\ available_tools' = RestTry(response)
                  /\ UNCHANGED endpoint_idx
             ELSE IF endpoint_idx < Len(endpoints_to_try)
             THEN /\ endpoint_idx' = endpoint_idx + 1
                  /\ UNCHANGED <<pc, available_tools>>
             ELSE /\ pc' = "discovered"
                  /\ available_tools' = fallback_tools
                  /\ UNCHANGED endpoint_idx
    /\ UNCHANGED loop_vars_but_pc
    /\ UNCHANGED <<extract_vars, access_token, agent_vars, setup_vars>>

\* main.py:649-652: main() calls discover_mcp_tools before anything else
InitDiscover ==
    /\ LoopIdle
    /\ ExtractIdle
    /\ DiscoverIdle
    /\ AgentIdle
    /\ SetupIdle
    /\ pc = "discover"

NextDiscover == DiscoverGetToken \/ JsonRpcList \/ RestGet

SpecDiscover == InitDiscover /\ [][NextDiscover]_vars

----------------------------------------------------------------------------
(* get_or_create_agent *)

\* the values of AGENT_ID: absent from the environment, empty, or an id
AgentIds == {NoneVal, "", "asst_1", "asst_2"}

\* the model deployments of the model
Models == {"gpt-4o", "gpt-4o-mini", "gpt-4.1"}

\* the ids the service gives a new agent
NewAgentIds == {"asst_8", "asst_9"}

\* retrieval attempted whatever force_create is
ShouldRetrieve_IgnoresForce(agent_id, force) == agent_id \notin {NoneVal, ""}

\* main.py:319, `if AGENT_ID and not force_create`
ShouldRetrieve(agent_id, force) == agent_id \notin {NoneVal, ""} /\ ~force

\* the record kept of a call on project_client.agents
AgentCall(op, arg, ok) == [op |-> op, arg |-> arg, ok |-> ok]

\* main.py:319-329: get_agent is called, or the branch is skipped
RetrieveAgent ==
    /\ pc = "agent"
    /\ IF ShouldRetrieve(AGENT_ID, force_create)
       THEN \/ /\ agent_calls' =
                     Append(agent_calls, AgentCall("get_agent", AGENT_ID, TRUE))
               /\ agent' = [py |-> "Agent", id |-> AGENT_ID]
               /\ pc' = "agent_returned"
            \/ /\ agent_calls' =
                     Append(agent_calls, AgentCall("get_agent", AGENT_ID, FALSE))
               /\ pc' = "create_agent"
               /\ UNCHANGED agent
       ELSE pc' = "create_agent" /\ UNCHANGED <<agent_calls, agent>>
    /\ UNCHANGED loop_vars_but_pc
    /\ UNCHANGED <<extract_vars, discover_vars, setup_vars, AGENT_ID,
                   force_create, model>>

\* main.py:331-348: create_agent returns the new agent, or its exception
\* leaves get_or_create_agent
CreateAgent ==
    /\ pc = "create_agent"
    /\ \/ \E id \in NewAgentIds :
             /\ agent_calls' =
                   Append(agent_calls, AgentCall("create_agent", model, TRUE))
             /\ agent' = [py |-> "Agent", id |-> id]
             /\ pc' = "agent_returned"
       \/ /\ agent_calls' =
                Append(agent_calls, AgentCall("create_agent", model, FALSE))
          /\ agent' = Raise("HttpResponseError")
          /\ pc' = "agent_raised"
    /\ UNCHANGED loop_vars_but_pc
    /\ UNCHANGED <<extract_vars, discover_vars, setup_vars, AGENT_ID,
                   force_create, model>>

\* main.py:44 and 292-299: the environment and the arguments of the call
InitAgent ==
    /\ LoopIdle
    /\ ExtractIdle
    /\ DiscoverIdle
    /\ SetupIdle
    /\ pc = "agent"
    /\ AGENT_ID \in AgentIds
    /\ force_create \in BOOLEAN
    /\ model \in Models
    /\ agent_calls = <<>>
    /\ agent = NoValue

NextAgent == RetrieveAgent \/ CreateAgent

SpecAgent == InitAgent /\ [][NextAgent]_vars

----------------------------------------------------------------------------
(* The setup check script, test_mcp_setup.py *)

\* test_mcp_setup.py:160-166
RequiredNames ==
    {"PROJECT_ENDPOINT", "MODEL_DEPLOYMENT_NAME", "MCP_SERVER_URL",
     "MCP_SERVER_LABEL", "MCP_AUTH_SCOPE"}

\* test_mcp_setup.py:173-192: all_ok, every required variable has a value
test_configuration(required) == \A key \in RequiredNames : required[key]

\* what credential.get_token gives the script: an exception, or a token,
\* the empty one included
SetupCredOutcomes ==
    {[ok |-> FALSE, token |-> NoneVal], [ok |-> TRUE, token |-> ""],
     [ok |-> TRUE, token |-> "tokA"], [ok |-> TRUE, token |-> "tokB"]}

\* test_mcp_setup.py:25-46: the token, or None after an exception
test_azure_authentication(cred) == IF cred.ok THEN cred.token ELSE NoneVal

\* `if not token`
NoToken(tok) == tok \in {NoneVal, ""}

\* the bodies of the server's answers
SetupBodies ==
    {[py |-> "invalid"], Num(0), Str("result"), List(<<Str("result")>>),
     List(<<>>), [py |-> "dict"],
     [py |-> "dict", result |-> Str("done")],
     [py |-> "dict", result |-> NoValue],
     [py |-> "dict", error |-> Str("bad")],
     [py |-> "dict", result |-> Str("done"), error |-> Str("bad")]}

\* what requests.post can do: raise, or return a response
SetupOutcomes ==
    {NoResponse}
    \cup [exc : {FALSE}, status_code : {401, 403, 500},
          data : {[py |-> "invalid"], [py |-> "dict", result |-> Str("done")]}]
    \cup [exc : {FALSE}, status_code : {200}, data : SetupBodies]

\* a connectivity check that passes on every answer with status 200
ConnectivityResult_AnyBody(response) ==
    IF ~response.exc /\ response.status_code = 200 THEN "True" ELSE "False"

\* test_mcp_setup.py:85-152, after requests.post returned or raised: the
\* value returned, "None" when the function runs off its end
ConnectivityResult(response) ==
    IF response.exc THEN "False"
    ELSE IF response.status_code # 200 THEN "False"
    ELSE IF response.data.py = "invalid" THEN "False"
    ELSE IF ~CanContain(response.data) THEN "False"
    ELSE IF Contains(response.data, "result")
    THEN IF response.data.py = "dict" THEN "True" ELSE "False"
    ELSE IF Contains(response.data, "error") THEN "False"
    ELSE "None"

\* test_mcp_setup.py:199-203
RunConfiguration ==
    /\ pc = "setup"
    /\ checks_run' = Append(checks_run, "configuration")
    /\ IF test_configuration(required_vars)
       THEN pc' = "setup_authentication" /\ UNCHANGED success
       ELSE pc' = "setup_returned" /\ success' = "False"
    /\ UNCHANGED loop_vars_but_pc
    /\ UNCHANGED <<extract_vars, discover_vars, agent_vars, required_vars,
                   setup_requests, setup_token, setup_response,
                   connectivity_ok, exit_code>>

\* test_mcp_setup.py:206-210
RunAuthentication ==
    /\ pc = "setup_authentication"
    /\ checks_run' = Append(checks_run, "authentication")
    /\ setup_requests' = Append(setup_requests, "get_token")
    /\ \E cred \in SetupCredOutcomes :
          setup_token' = test_azure_authentication(cred)
    /\ IF NoToken(setup_token')
       THEN pc' = "setup_returned" /\ success' = "False"
       ELSE pc' = "setup_connectivity" /\ UNCHANGED success
    /\ UNCHANGED loop_vars_but_pc
    /\ UNCHANGED <<extract_vars, discover_vars, agent_vars, required_vars,
                   setup_response, connectivity_ok, exit_code>>

\* test_mcp_setup.py:213-227 and 56-62: the connectivity check asks the
\* server unless the token or the URL is missing
RunConnectivity ==
    /\ pc = "setup_connectivity"
    /\ checks_run' = Append(checks_run, "connectivity")
    /\ IF NoToken(setup_token) \/ ~required_vars["MCP_SERVER_URL"]
       THEN /\ connectivity_ok' = "False"
            /\ UNCHANGED <<setup_requests, setup_response>>
       ELSE /\ setup_requests' = Append(setup_requests, "post")
            /\ \E response \in SetupOutcomes :
                  /\ setup_response' = response
                  /\ connectivity_ok' = ConnectivityResult(response)
    /\ success' = IF connectivity_ok' = "True" THEN "True" ELSE "False"
    /\ pc' = "setup_returned"
    /\ UNCHANGED loop_vars_but_pc
    /\ UNCHANGED <<extract_vars, discover_vars, agent_vars, required_vars,
                   setup_token, exit_code>>

\* test_mcp_setup.py:230-231
SysExit ==
    /\ pc = "setup_returned"
    /\ exit_code' = IF success = "True" THEN 0 ELSE 1
    /\ pc' = "setup_exited"
    /\ UNCHANGED loop_vars_but_pc
    /\ UNCHANGED <<extract_vars, discover_vars, agent_vars, required_vars,
                   checks_run, setup_requests, setup_token, setup_response,
                   connectivity_ok, success>>

\* the script starts in any environment
InitSetup ==
    /\ LoopIdle
    /\ ExtractIdle
    /\ DiscoverIdle
    /\ AgentIdle
    /\ pc = "setup"
    /\ required_vars \in [RequiredNames -> BOOLEAN]
    /\ checks_run = <<>>
    /\ setup_requests = <<>>
    /\ setup_token = NoneVal
    /\ setup_response = NoResponse
    /\ connectivity_ok = NoneVal
    /\ success = NoneVal
    /\ exit_code = -1

NextSetup == RunConfiguration \/ RunAuthentication \/ RunConnectivity \/ SysExit

SpecSetup == InitSetup /\ [][NextSetup]_vars

----------------------------------------------------------------------------
(* Claims about drive_until_complete *)

Elapsed == now - start_time
NonTerminal == run.status \in {"queued", "in_progress", "requires_action"}
Returned == pc = "done"
Slept == \E i \in DOMAIN log : log[i].ev = "sleep"

\* C1 as stated: whenever drive_until_complete has returned, the returned
\* run's status is terminal or the elapsed time has exceeded timeout_seconds.
C1_ReturnsOnlyOnTerminalOrTimeout ==
    Returned => (~NonTerminal \/ Elapsed > timeout_seconds)

\* C1 amended: whenever drive_until_complete has returned, the returned run's
\* status is terminal, or the elapsed time has exceeded timeout_seconds, or
\* the status fetch made after the sleep raised.
C1_ReturnsOnTerminalTimeoutOrFetchError ==
    Returned => (~NonTerminal \/ Elapsed > timeout_seconds \/ fetch_failed)

\* the loop returned a non-terminal run before the timeout
C1_Witness ==
    Returned /\ NonTerminal /\ Elapsed <= timeout_seconds /\ fetch_failed

\* C2: with every call returning and the clock advancing in every iteration,
\* the loop eventually exits (it returns or lets an exception through),
\* whatever statuses the service reports.
C2_LoopTerminates == <>(pc \in {"done", "raised"})

\* the run stayed in requires_action until the loop timed out
C2_Witness ==
    Returned /\ run.status = "requires_action" /\ cancels = 1
    /\ Elapsed > timeout_seconds

\* the run being handled demands an action of this kind, and the loop is
\* about to fetch the next status
Handled(kind) ==
    /\ pc = "refetch"
    /\ run.status = "requires_action"
    /\ run.required_action.kind = kind

Listed == run.required_action.tool_calls
ListedMcp == SelectSeq(Listed, LAMBDA c : c.type = "mcp")
ApprovalSubmissions ==
    SelectSeq(log, LAMBDA e : e.ev = "submit" /\ "tool_approvals" \in DOMAIN e)
OutputSubmissions ==
    SelectSeq(log, LAMBDA e : e.ev = "submit" /\ "tool_outputs" \in DOMAIN e)
Executions == SelectSeq(log, LAMBDA e : e.ev = "execute")
IsErrorValue(v) == v.py = "dict" /\ "error" \in DOMAIN v

\* C3 as stated: when the fetched run demands approvals, every listed tool
\* call has received an approval (approve = true, with its id) in one
\* submission by the time of the next status fetch.
C3_EveryListedCallApproved ==
    Handled("approval") =>
        \A i \in DOMAIN Listed :
            /\ Len(ApprovalSubmissions) = 1
            /\ \E k \in DOMAIN ApprovalSubmissions[1].tool_approvals :
                  LET a == ApprovalSubmissions[1].tool_approvals[k]
                  IN a.tool_call_id = Listed[i].id /\ a.approve

\* C3 amended: when the fetched run demands approvals, by the time of the next
\* status fetch every listed MCP tool call has received an approval (approve =
\* true, with its id) in one submission, which holds nothing else and is the
\* only thing done; listed calls of other types receive none, and when no MCP
\* call is listed nothing is submitted.
C3_EveryListedMcpCallApproved ==
    Handled("approval") =>
        IF Len(ListedMcp) = 0
        THEN log = <<>>
        ELSE /\ Len(log) = 1
             /\ Len(ApprovalSubmissions) = 1
             /\ LET sent == ApprovalSubmissions[1].tool_approvals
                IN /\ Len(sent) = Len(ListedMcp)
                   /\ \A k \in DOMAIN sent :
                         /\ sent[k].tool_call_id = ListedMcp[k].id
                         /\ sent[k].approve

\* approvals were submitted for an action that lists an MCP call and a call
\* of another type
C3_Witness ==
    /\ Handled("approval")
    /\ Len(ApprovalSubmissions) = 1
    /\ Len(Listed) = 2
    /\ Len(ListedMcp) = 1

\* the outputs of one submission are those of the executions, in their order
OutputsMatchExecutions(sent) ==
    /\ Len(sent) = Len(Executions)
    /\ \A k \in DOMAIN sent :
          /\ sent[k].tool_call_id = Executions[k].id
          /\ sent[k].output = Executions[k].output

\* the listed MCP calls were executed once each, in listed order
ExecutedAsListed ==
    /\ Len(Executions) = Len(ListedMcp)
    /\ \A k \in DOMAIN Executions : Executions[k].id = ListedMcp[k].id

\* C4 as stated: when the fetched run demands tool outputs, by the time of the
\* next status fetch each listed MCP call was executed once, in listed order,
\* and then one submission was made that holds one output per executed call,
\* with that call's id and in the same order, failed executions included.
C4_ExecutedThenOneSubmission ==
    Handled("outputs") =>
        /\ ExecutedAsListed
        /\ Len(OutputSubmissions) = 1
        /\ Len(log) = Len(Executions) + 1
        /\ log[Len(log)].ev = "submit"
        /\ OutputsMatchExecutions(OutputSubmissions[1].tool_outputs)

\* C4 amended: the same when at least one MCP call is listed; when none is
\* listed, nothing is executed and nothing is submitted.
C4_ExecutedThenOneSubmissionIfAny ==
    Handled("outputs") =>
        /\ ExecutedAsListed
        /\ IF Len(ListedMcp) = 0
           THEN log = <<>>
           ELSE /\ Len(OutputSubmissions) = 1
                /\ Len(log) = Len(Executions) + 1
                /\ log[Len(log)].ev = "submit"
                /\ OutputsMatchExecutions(OutputSubmissions[1].tool_outputs)

\* two calls were executed, the first failed, and both outputs were submitted
C4_Witness ==
    /\ Handled("outputs")
    /\ Len(Executions) = 2
    /\ IsErrorValue(Executions[1].output)
    /\ ~IsErrorValue(Executions[2].output)
    /\ Len(OutputSubmissions) = 1

\* C5 as stated: every status fetch is preceded by a sleep since the previous
\* fetch.
C5_EveryFetchAfterSleep == pc \in {"fetch", "refetch"} => Slept

\* C5 amended: the fetch made for a queued or in_progress run is preceded by
\* exactly one sleep of poll_interval since the previous fetch; the fetch made
\* after a requires_action run was handled is preceded by no sleep.
C5_SleepBeforePollFetchOnly ==
    /\ pc = "fetch" =>
          /\ run.status \in {"queued", "in_progress"}
          /\ log = <<[ev |-> "sleep", seconds |-> poll_interval]>>
    /\ pc = "refetch" => (run.status = "requires_action" /\ ~Slept)

\* a second fetch is about to follow the previous one with nothing between
C5_Witness == pc = "refetch" /\ now > start_time /\ log = <<>>

\* C6: an iteration that begins with a non-terminal status and an elapsed
\* time above timeout_seconds issues one cancel request, the only one of the
\* loop, and exits with no sleep, fetch, approval or tool execution; the
\* failure of the cancel request does not change that.
C6_TimeoutCancelsOnceAndExits ==
    /\ [](pc = "cancel" => cancels = 0)
    /\ [][/\ (pc = "loop" /\ NonTerminal /\ Elapsed > timeout_seconds) =>
                /\ pc' = "cancel"
                /\ UNCHANGED <<run, log, mcp_token_cache, last_token,
                               last_call, cancels>>
          /\ pc = "cancel" =>
                /\ \/ ~calling /\ calling' /\ pc' = "cancel" /\ cancels' = 0
                   \/ calling /\ pc' = "done" /\ cancels' = 1
                /\ UNCHANGED <<run, log, mcp_token_cache, last_token,
                               last_call>>
          /\ pc = "done" => pc' = "done"]_vars

\* the loop timed out, the cancel request failed, and the loop returned
C6_Witness ==
    Returned /\ cancels = 1 /\ cancel_failed /\ NonTerminal
    /\ Elapsed > timeout_seconds

----------------------------------------------------------------------------
(* Claims about get_mcp_access_token *)

\* a step in which get_mcp_access_token is called
TokenStep == last_token'.flip # last_token.flip

\* the cache holds a token that expires more than 300 seconds from now
HoldsFreshToken ==
    mcp_token_cache.token # NoneVal /\ mcp_token_cache.expires_at - now > 300

\* C7: a call of get_mcp_access_token returns the cached token without asking
\* the credential exactly when the cache holds a token whose expires_at is
\* more than 300 seconds after the current time; so a token served from the
\* cache has more than 300 seconds left when it is returned.
C7_ServedFromCacheIffFresh ==
    [][TokenStep =>
          /\ (~last_token'.requested) <=> HoldsFreshToken
          /\ (~last_token'.requested) =>
                /\ ~last_token'.raised
                /\ last_token'.token = mcp_token_cache.token
                /\ mcp_token_cache.expires_at - now > 300
                /\ mcp_token_cache' = mcp_token_cache]_vars

\* the latest call was served from the cache
C7_Witness ==
    /\ last_token.called
    /\ ~last_token.requested
    /\ last_token.token = mcp_token_cache.token
    /\ mcp_token_cache.token = "tokA"

\* C8: a call made when the cache is empty or its token expires within 300
\* seconds asks the credential and, when that succeeds, stores the token and
\* the expiry of that one result and returns its token; the cache is always
\* either initial or the token and the expiry of one credential result.
C8_RefreshStoresOneResult ==
    /\ [](\/ mcp_token_cache = [token |-> NoneVal, expires_at |-> 0]
          \/ /\ issued.token # NoneVal
             /\ mcp_token_cache.token = issued.token
             /\ mcp_token_cache.expires_at = issued.expires_on)
    /\ [][(TokenStep /\ ~HoldsFreshToken) =>
             /\ last_token'.requested
             /\ IF last_token'.raised
                THEN mcp_token_cache' = mcp_token_cache /\ issued' = issued
                ELSE /\ issued'.expires_on > now
                     /\ last_token'.token = issued'.token
                     /\ mcp_token_cache'.token = issued'.token
                     /\ mcp_token_cache'.expires_at = issued'.expires_on]_vars

\* a cached token that had come within the margin was replaced by a new one
C8_Witness ==
    /\ last_token.called
    /\ last_token.requested
    /\ ~last_token.raised
    /\ now > 0
    /\ mcp_token_cache = [token |-> "tokA", expires_at |-> now + 301]

----------------------------------------------------------------------------
(* Claims about execute_mcp_tool *)

Response == last_call.http
Body == last_call.http.data
Answered == last_call.called /\ ~last_call.token_raised /\ ~Response.exc
HasKey(d, k) == d.py = "dict" /\ k \in DOMAIN d

\* the failures C9 lists
ListedFailure ==
    \/ last_call.token_raised
    \/ Response.exc
    \/ Response.status_code # 200
    \/ Body.py = "invalid"
    \/ HasKey(Body, "error")
    \/ Body.py = "dict" /\ ~HasKey(Body, "result") /\ ~HasKey(Body, "error")

\* C9: execute_mcp_tool lets no exception through, and for a token failure,
\* a connection error, a non-200 status, an unparsable body, a JSON-RPC error
\* and a body with neither result nor error it returns a record with an
\* "error" field.
C9_NeverRaisesErrorsAreRecords ==
    last_call.called =>
        /\ last_result.py # "exception"
        /\ ListedFailure => IsErrorValue(last_result)

\* the token could not be obtained and the call returned an error record
C9_Witness ==
    last_call.called /\ last_call.token_raised /\ IsErrorValue(last_result)

\* the result has a content list that starts with an item with a text field
HasText(result) ==
    /\ HasKey(result, "content")
    /\ result.content.py = "list"
    /\ Len(result.content.items) > 0
    /\ HasKey(result.content.items[1], "text")

\* C10 as stated: 401 gives the authentication error, 403 the authorization
\* error, another non-200 status an HTTP error; for 200 an "error" field wins
\* over a "result" field; otherwise a result whose content is a non-empty list
\* whose first item has a text field yields that text, and any other result
\* is returned unchanged.
C10_ResponseClassification ==
    Answered =>
        /\ Response.status_code = 401 =>
              last_result = [py |-> "dict",
                             error |-> [fmt |-> "Authentication failed"]]
        /\ Response.status_code = 403 =>
              last_result = [py |-> "dict",
                             error |-> [fmt |-> "Authorization failed"]]
        /\ Response.status_code \notin {200, 401, 403} =>
              last_result = [py |-> "dict",
                             error |-> [fmt |-> "HTTP",
                                        status |-> Response.status_code]]
        /\ (Response.status_code = 200 /\ HasKey(Body, "error")) =>
              /\ IsErrorValue(last_result)
              /\ HasKey(Body, "result") => last_result # Body.result
        /\ (/\ Response.status_code = 200
            /\ ~HasKey(Body, "error")
            /\ HasKey(Body, "result")) =>
              IF HasText(Body.result)
              THEN last_result = Body.result.content.items[1].text
              ELSE last_result = Body.result

----------------------------------------------------------------------------
(* Claims about extract_tools_from_response *)

\* the names a tool list holds: its strings and the "name" of its records
RECURSIVE NamesIn(_)
NamesIn(entries) ==
    IF Len(entries) = 0 THEN <<>>
    ELSE LET tool == Head(entries)
         IN IF tool.py = "str" THEN <<tool>> \o NamesIn(Tail(entries))
            ELSE IF tool.py = "dict" /\ "name" \in DOMAIN tool
            THEN <<tool.name>> \o NamesIn(Tail(entries))
            ELSE NamesIn(Tail(entries))

\* the argument is the list l in a documented shape, bare or under "result"
Documented(l) ==
    \/ response_data \in Shapes(l)
    \/ \E d \in Shapes(l) : response_data = [py |-> "dict", result |-> d]

\* C13: extract_tools_from_response returns a list whatever it is given, and
\* for a tool list in any documented shape ({"tools": l}, {"capabilities":
\* {"tools": l}}, l itself, or one of these under "result") it returns the
\* names of l's strings and named records in input order, whatever the names
\* are ("tools" and "capabilities" included), skipping every other entry.
C13_ExtractsEveryDocumentedShape ==
    pc = "extracted" =>
        /\ extracted.py = "list"
        /\ \A l \in ToolLists : Documented(l) => extracted.items = NamesIn(l)

----------------------------------------------------------------------------
(* Claims about discover_mcp_tools *)

\* the eight names of the fallback
FallbackNames ==
    <<"query_sql", "execute_sql", "list_tables", "describe_table",
      "create_table", "drop_table", "create_index", "update_data">>

IsFallback(v) ==
    /\ v.py = "list"
    /\ Len(v.items) = 8
    /\ \A i \in 1..8 : v.items[i] = [py |-> "str", value |-> FallbackNames[i]]

\* the methods in their order
MethodOrder ==
    <<[method |-> "POST", path |-> "/message"],
      [method |-> "GET", path |-> "/tools"],
      [method |-> "GET", path |-> "/list_tools"],
      [method |-> "GET", path |-> "/capabilities"],
      [method |-> "GET", path |-> "/introspect"]>>

Requests == Len(requests_sent)

\* the list the latest request yielded: what is extracted from the "result"
\* of a JSON-RPC answer or from the whole body of a REST answer with status
\* 200, and nothing when the request or the parsing failed
Yielded ==
    LET r == discover_response
    IN IF Requests = 0 \/ r.exc \/ r.status_code # 200 \/ r.data.py = "invalid"
       THEN <<>>
       ELSE IF requests_sent[Requests].method = "GET"
       THEN extract_tools_from_response(r.data).items
       ELSE IF r.data.py = "dict" /\ "result" \in DOMAIN r.data
       THEN extract_tools_from_response(r.data.result).items
       ELSE <<>>

TokenFailed == last_token.called /\ last_token.raised

\* C11: discover_mcp_tools always returns a list that is not empty.  A method
\* that yields a non-empty list ends the discovery at once with that list, so
\* the list returned is the one of the first method that yielded one; when
\* the token cannot be obtained, or when every one of the five requests
\* failed or yielded nothing, exactly the eight fallback names are returned.
C11_ReturnsYieldOrFallback ==
    /\ [](pc = "discovered" =>
            /\ available_tools.py = "list"
            /\ Len(available_tools.items) > 0
            /\ \/ Yielded # <<>> /\ available_tools.items = Yielded
               \/ /\ IsFallback(available_tools)
                  /\ TokenFailed \/ (Requests = 5 /\ Yielded = <<>>))
    /\ [][requests_sent' # requests_sent =>
            /\ Yielded' # <<>> =>
                  pc' = "discovered" /\ available_tools'.items = Yielded'
            /\ Yielded' = <<>> /\ Requests' < 5 => pc' # "discovered"]_vars

\* a REST endpoint yields the list after the JSON-RPC method yielded nothing
C11_Witness ==
    /\ pc = "discovered"
    /\ Requests \in 2..4
    /\ ~IsFallback(available_tools)
    /\ available_tools.items = Yielded

\* C12: the token is obtained before any request and every request carries
\* it; without a token there is no request and the fallback is returned; the
\* requests are POST /message, GET /tools, GET /list_tools, GET /capabilities
\* and GET /introspect in this order; a request is made only while no earlier
\* one has yielded a non-empty list; a method that failed or yielded nothing
\* is followed by the next one, so the fallback is returned with a token only
\* after all five; nothing is requested once the function has returned.
C12_FixedOrderStopsAtFirstSuccess ==
    /\ [](/\ Requests <= 5
          /\ \A i \in 1..Requests :
                /\ requests_sent[i].method = MethodOrder[i].method
                /\ requests_sent[i].path = MethodOrder[i].path
                /\ last_token.called /\ ~last_token.raised
                /\ requests_sent[i].token = last_token.token
          /\ TokenFailed =>
                pc = "discovered" /\ Requests = 0 /\ IsFallback(available_tools)
          /\ pc = "discovered" /\ ~TokenFailed /\ Requests < 5 => Yielded # <<>>)
    /\ [][requests_sent' # requests_sent =>
            /\ pc # "discovered"
            /\ Requests' = Requests + 1
            /\ Requests > 0 => Yielded = <<>>
            /\ Yielded' = <<>> /\ Requests' < 5 => pc' # "discovered"]_vars

\* the last endpoint is asked and yields the list
C12_Witness ==
    /\ pc = "discovered"
    /\ Requests = 5
    /\ requests_sent[5].path = "/introspect"
    /\ Yielded # <<>>
    /\ available_tools.items = Yielded

----------------------------------------------------------------------------
(* Claims about get_or_create_agent *)

\* AGENT_ID names an agent
AgentIdSet == AGENT_ID # "None" /\ AGENT_ID # ""

Ended == pc \in {"agent_returned", "agent_raised"}

Calls(op) == {i \in DOMAIN agent_calls : agent_calls[i].op = op}

\* C14: with AGENT_ID set and force_create false the first call is get_agent
\* of that id; when it succeeds its agent is returned and create_agent is not
\* called; when it fails create_agent is called next; with AGENT_ID unset (or
\* empty) or force_create true create_agent is called and get_agent is not;
\* create_agent is called at most once.
C14_ReuseBeforeCreate ==
    /\ Cardinality(Calls("create_agent")) <= 1
    /\ Cardinality(Calls("get_agent")) <= 1
    /\ AgentIdSet /\ ~force_create /\ pc # "agent" =>
          /\ agent_calls # <<>>
          /\ agent_calls[1].op = "get_agent"
          /\ agent_calls[1].arg = AGENT_ID
          /\ agent_calls[1].ok =>
                /\ pc = "agent_returned"
                /\ agent.id = AGENT_ID
                /\ Calls("create_agent") = {}
          /\ ~agent_calls[1].ok /\ Ended =>
                Len(agent_calls) = 2 /\ agent_calls[2].op = "create_agent"
    /\ ~AgentIdSet \/ force_create =>
          /\ Calls("get_agent") = {}
          /\ Ended => Len(agent_calls) = 1 /\ agent_calls[1].op = "create_agent"
    /\ pc = "agent_returned" /\ Calls("create_agent") # {} =>
          agent.id \notin {"None", "", AGENT_ID}

\* the retrieval failed and a new agent was created
C14_Witness ==
    /\ pc = "agent_returned"
    /\ Len(agent_calls) = 2
    /\ agent_calls[1].op = "get_agent" /\ ~agent_calls[1].ok
    /\ agent_calls[2].op = "create_agent" /\ agent_calls[2].ok

----------------------------------------------------------------------------
(* Claims about the order of the loop's requests *)

\* the listed MCP call at position j has been executed to completion
Completed(j) == \E k \in DOMAIN Executions : Executions[k].id = Listed[j].id

Submitted == \E i \in DOMAIN log : log[i].ev = "submit"

\* C15: at most one request is outstanding at any moment, and it is the one
\* of the call the single caller is blocked in; while the request of a tool
\* call is outstanding, every MCP call listed before it has been executed to
\* completion, no later call has been started and nothing has been
\* submitted; the outputs are submitted only after every listed MCP call has
\* been executed to completion.
C15_OneRequestAtATime ==
    /\ Cardinality(outstanding) <= 1
    /\ \A req \in outstanding :
          /\ calling
          /\ req.kind = "get" => pc \in {"fetch", "refetch"}
          /\ req.kind = "cancel" => pc = "cancel"
          /\ req.kind = "token" => pc = "approve"
          /\ req.kind = "tool" =>
                /\ pc = "exec"
                /\ idx \in DOMAIN Listed
                /\ Listed[idx].type = "mcp" /\ Listed[idx].id = req.id
                /\ \A j \in DOMAIN Listed :
                      Listed[j].type = "mcp" => (Completed(j) <=> j < idx)
                /\ ~Submitted
          /\ req.kind = "submit" =>
                /\ pc \in {"submit_approvals", "submit_outputs"}
                /\ pc = "submit_outputs" =>
                      \A j \in DOMAIN Listed :
                         Listed[j].type = "mcp" => Completed(j)

\* the second tool call is being executed after the first one has returned
C15_Witness ==
    /\ \E req \in outstanding : req.kind = "tool"
    /\ idx = 2
    /\ Len(Executions) = 1

----------------------------------------------------------------------------
(* Claims about the setup check script *)

IsPrefix(p, q) == Len(p) <= Len(q) /\ \A i \in DOMAIN p : p[i] = q[i]

ConfigurationPasses == \A key \in DOMAIN required_vars : required_vars[key]

AuthenticationPasses ==
    /\ \E i \in DOMAIN setup_requests : setup_requests[i] = "get_token"
    /\ setup_token # "None" /\ setup_token # ""

\* the server was asked and answered 200 with a body that has a "result"
ConnectivityPasses ==
    /\ \E i \in DOMAIN setup_requests : setup_requests[i] = "post"
    /\ ~setup_response.exc
    /\ setup_response.status_code = 200
    /\ setup_response.data.py = "dict"
    /\ "result" \in DOMAIN setup_response.data

\* C16: the checks run in the order configuration, authentication,
\* connectivity and the requests in the order token, server; with a required
\* variable missing only the configuration check runs and no request is
\* made; without a token the connectivity check does not run and the server
\* is not asked; main() returns True exactly when the three checks pass, and
\* the exit code is 0 exactly then and 1 otherwise.
C16_ChecksInOrderSuccessIffAllPass ==
    /\ IsPrefix(checks_run, <<"configuration", "authentication", "connectivity">>)
    /\ IsPrefix(setup_requests, <<"get_token", "post">>)
    /\ ~ConfigurationPasses =>
          Len(checks_run) <= 1 /\ setup_requests = <<>>
    /\ Len(checks_run) >= 2 /\ ~AuthenticationPasses =>
          Len(checks_run) = 2 /\ setup_requests = <<"get_token">>
    /\ pc \in {"setup_returned", "setup_exited"} =>
          /\ success \in {"True", "False"}
          /\ success = "True" <=>
                ConfigurationPasses /\ AuthenticationPasses /\ ConnectivityPasses
          /\ success = "False" /\ ConfigurationPasses /\ AuthenticationPasses =>
                Len(checks_run) = 3
    /\ pc = "setup_exited" =>
          /\ exit_code \in {0, 1}
          /\ exit_code = 0 <=> success = "True"

\* the script has exited with code 0
C16_Witness ==
    /\ pc = "setup_exited"
    /\ exit_code = 0
    /\ checks_run = <<"configuration", "authentication", "connectivity">>
    /\ setup_requests = <<"get_token", "post">>

----------------------------------------------------------------------------
(* Claims about the errors of the service calls *)

\* a step in which a call of the service raises
CallFails == failed_call' # failed_call

\* C17: when the status fetch made after the sleep raises, the loop ends and
\* drive_until_complete returns the run it had, whose status is not terminal;
\* when a submission or the status fetch made after an action was serviced
\* raises, drive_until_complete does not return: the exception leaves it.
\* No other call of the service ends the function with an exception.
C17_FetchErrorReturnsOtherErrorsPropagate ==
    /\ [][CallFails =>
            \/ /\ failed_call' = "fetch_after_sleep"
               /\ pc = "fetch" /\ pc' = "done"
               /\ run' = run
               /\ run.status \in {"queued", "in_progress", "requires_action"}
            \/ /\ failed_call' = "submit"
               /\ pc \in {"submit_approvals", "submit_outputs"}
               /\ pc' = "raised"
            \/ /\ failed_call' = "fetch_after_action"
               /\ pc = "refetch"
               /\ pc' = "raised"]_vars
    /\ [][pc' = "raised" => CallFails \/ pc = "raised"]_vars
    /\ [][(pc = "done" \/ pc = "raised") => (pc' = pc /\ run' = run)]_vars

\* a submission raised and the exception left drive_until_complete
C17_Witness == pc = "raised" /\ failed_call = "submit"

----------------------------------------------------------------------------
(* Claims about a required action the loop cannot answer *)

\* the run demands an action that is neither an approval nor an outputs
\* action, or one that lists no MCP tool call
Unanswerable ==
    /\ run.status = "requires_action"
    /\ \/ run.required_action.kind \notin {"approval", "outputs"}
       \/ \A i \in DOMAIN Listed : Listed[i].type # "mcp"

\* the loop ended through the timeout check
TimeoutExit == pc = "done" /\ cancels = 1 /\ Elapsed > timeout_seconds

\* C18: while the run demands an action the loop cannot answer, the loop
\* neither sleeps nor executes a tool nor submits anything, and goes from the
\* top of the loop to the next status fetch unless the timeout check fires;
\* if the service keeps answering with such a run, this goes on until the
\* timeout check ends the loop.
C18_UnanswerableActionSpinsUntilTimeout ==
    /\ [](Unanswerable =>
            /\ pc \notin {"sleep", "fetch", "submit_approvals", "submit_outputs"}
            /\ pc # "loop" => log = <<>>)
    /\ [][Unanswerable /\ pc = "loop" /\ Elapsed <= timeout_seconds =>
             pc' \in {"approve", "exec", "refetch"}]_vars
    /\ [][Unanswerable /\ (pc = "approve" \/ pc = "exec") =>
             pc' \in {pc, "refetch"}]_vars
    /\ (Unanswerable /\ pc = "loop") ~>
          (~Unanswerable \/ pc = "raised" \/ TimeoutExit)

\* the same approval action without an MCP call is about to be fetched again
\* with nothing having been done about it
C18_Witness ==
    /\ pc = "refetch"
    /\ Unanswerable
    /\ run.required_action.kind = "approval"
    /\ Len(Listed) > 0
    /\ Elapsed >= 2 * fetch_seconds
    /\ log = <<>>

----------------------------------------------------------------------------
(* Claims about a rejected token *)

\* a step in which execute_mcp_tool is called
ExecuteStep == tool_requests'.flip # tool_requests.flip

\* the answer of that call was 401 or 403
Rejected ==
    /\ ~last_call'.token_raised
    /\ ~last_call'.http.exc
    /\ last_call'.http.status_code \in {401, 403}

\* C19: a call of execute_mcp_tool makes at most one HTTP request, and
\* exactly one when it has a token; a call answered 401 or 403 returns a
\* record with an "error" and leaves the cache as the token step left it,
\* holding the token that was rejected; a call made while the cache holds a
\* token more than 300 seconds from expiry sends that cached token and
\* leaves the cache unchanged, so the rejected token is sent again.
C19_RejectedTokenKeptAndResent ==
    [][ExecuteStep =>
         LET requests == tool_requests'.requests
         IN /\ Len(requests) = IF last_call'.token_raised THEN 0 ELSE 1
            /\ Rejected =>
                  /\ last_result'.py = "dict" /\ "error" \in DOMAIN last_result'
                  /\ mcp_token_cache'.token = requests[1].token
                  /\ \/ mcp_token_cache' = mcp_token_cache
                     \/ /\ last_token'.requested
                        /\ mcp_token_cache' =
                              [token |-> issued'.token,
                               expires_at |-> issued'.expires_on]
            /\ HoldsFreshToken =>
                  /\ Len(requests) = 1
                  /\ requests[1].token = mcp_token_cache.token
                  /\ mcp_token_cache' = mcp_token_cache]_vars

\* a second call has sent the cached token and was rejected, and the cache
\* still holds that token, valid for more than 300 seconds
C19_Witness ==
    /\ last_call.called /\ ~tool_requests.flip
    /\ ~last_call.token_raised /\ ~last_call.http.exc
    /\ last_call.http.status_code = 401
    /\ ~last_token.requested
    /\ Len(tool_requests.requests) = 1
    /\ tool_requests.requests[1].token = mcp_token_cache.token
    /\ mcp_token_cache.expires_at - now > 300

====
